---- MODULE Spec2Model ----
(***************************************************************************)
(* Document ingestion and question answering of app/services/              *)
(* document_service.py (class DocumentService) with the routes of          *)
(* app/api/v1/document.py.                                                 *)
(*                                                                         *)
(* The route handlers are "async def" functions that call the service      *)
(* synchronously and never await inside it, so one handler runs to its end *)
(* on the event loop before the next one starts: each handler is one       *)
(* action.  process_document is a synchronous function handed to           *)
(* BackgroundTasks, which runs it in a worker thread: it interleaves with  *)
(* the handlers, and is split into one action per access to the shared     *)
(* state (the two dicts and the Firestore collection).  A handler's reads  *)
(* and writes of that state are taken in one step also with respect to the *)
(* worker thread.                                                          *)
(*                                                                         *)
(* Strings are TLA+ strings and store_key is the concatenation the code    *)
(* performs.  Firestore documents are functions from field names to        *)
(* values; the two dicts are functions whose DOMAIN is the set of keys.    *)
(* The SERVER_TIMESTAMP fields (created_at, updated_at) are left out: no   *)
(* code reads them.                                                        *)
(***************************************************************************)
EXTENDS Integers, Sequences, FiniteSets, TLC

\* Number of uuid4 values the model lets upload_document draw.
MaxUploads == 1

\* usage_limit_service.MAX_DOCUMENTS
MAX_DOCUMENTS == 2

\* Python's None.
None == "None"

\* Values of current_user["uid"].  A uid is an arbitrary string: the second
\* one contains the character store_key joins with.
Users == {"a", "a_b"}

\* users/<uid>.role == "admin"
Admins == {}

\* A uuid4 that returns the value it returned before.
UuidRepeated(i) == "d1"

\* str(uuid.uuid4()): hexadecimal digits and '-', never '_'.
Uuid(i) == "d" \o ToString(i)

DocIds == {Uuid(i) : i \in 1..MaxUploads}

\* document_id / task_id of a request body or path: any string the client sends.
RequestIds == DocIds \cup {"b_" \o d : d \in DocIds}

\* (user, document_id) of an ask request: each user with each issued id, and
\* the first user with each id that is not an issued one.
AskInputs == (Users \X DocIds) \cup {<<"a", d>> : d \in RequestIds \ DocIds}

\* (filename, content) of an upload: one input per case upload_document tells
\* apart.  content is the class of len(file_content) against max_upload_size.
UploadInputs == {<<"", "ok">>, <<"a.exe", "ok">>, <<"a.txt", "empty">>,
                 <<"a.txt", "too_large">>, <<"a.txt", "ok">>}

\* Path(filename).suffix.lower() for the filenames above.
Suffix(filename) ==
    IF filename = "a.txt" THEN ".txt"
    ELSE IF filename = "a.exe" THEN ".exe"
    ELSE ""

supported_extensions == {".pdf", ".txt", ".docx", ".doc", ".ppt", ".pptx", ".xls", ".xlsx"}

\* str(e) of the exception each failing stage raises.
ErrorMessage(stage) ==
    CASE stage = "load"  -> "could not load"
      [] stage = "empty" -> "No content could be extracted from the document"
      [] stage = "split" -> "Document splitting resulted in no chunks"
      [] stage = "embed" -> "embedding failed"
      [] stage = "set"   -> "metadata write failed"
      [] OTHER           -> None

VARIABLES
    documents,          \* Firestore collection "documents": id -> fields
    vectorstores,       \* self.vectorstores: store_key -> index
    processing_status,  \* self.processing_status: store_key -> bool
    tasks,              \* background tasks: document_id -> the process_document run
    files,              \* temp_docs_dir: ids of the documents whose file exists
    issued,             \* number of uuid4 values drawn so far
    resp                \* the response of the last request handled, or the
                        \* ask_question the event loop is in (op = "asking")

vars == <<documents, vectorstores, processing_status, tasks, files, issued, resp>>

----------------------------------------------------------------------------
\* Helpers for dicts and Firestore documents.

\* A key made of the user alone.
StoreKeyOfUser(user_id, document_id) == user_id

\* f"{user_id}_{document_id}"
store_key(user_id, document_id) == user_id \o "_" \o document_id

\* dict[key] = value
DictSet(dict, key, value) ==
    [k \in DOMAIN dict \cup {key} |-> IF k = key THEN value ELSE dict[k]]

\* dict.pop(key, None)
DictPop(dict, key) == [k \in DOMAIN dict \ {key} |-> dict[k]]

\* dict.get(key, default)
DictGet(dict, key, default) == IF key \in DOMAIN dict THEN dict[key] ELSE default

\* doc_ref.update(fields) on an existing document: the fields are merged in.
Merge(fields, old) ==
    [f \in DOMAIN fields \cup DOMAIN old |->
        IF f \in DOMAIN fields THEN fields[f] ELSE old[f]]

\* docs_ref.where("user_id", "==", user_id): the number of matches.
CountDocuments(user_id) ==
    Cardinality({d \in DOMAIN documents : documents[d].user_id = user_id})

is_admin(user_id) == user_id \in Admins

\* check_document_limit raises 403.
DocumentLimitReached(user_id) ==
    ~is_admin(user_id) /\ CountDocuments(user_id) >= MAX_DOCUMENTS

Init ==
    /\ documents = <<>>
    /\ vectorstores = <<>>
    /\ processing_status = <<>>
    /\ tasks = <<>>
    /\ files = {}
    /\ issued = 0
    /\ resp = [op |-> "none"]

----------------------------------------------------------------------------
\* upload_document
\*
\* A scheduled task is a record: user_id and filename are the arguments of
\* process_document; pc is the place the run has reached ("build", "register",
\* "set_ready", "except", "finally", "done"); built is len(texts); error is
\* str(e) of the exception caught; raised tells that the except block itself
\* raised, so that the exception leaves process_document; loaded,
\* total_length, chunk_size and chunk_overlap are the run's local variables of
\* these names (documents for loaded), set by the build, and its texts are
\* Texts(loaded, TRUE).  deleted is history
\* kept for the properties: "in_flight" once delete_document succeeded before
\* the run ended, "ready" once it succeeded on the ready document, "ended" once
\* it succeeded on another document whose run had ended.

\* UploadRejection without the test of len(file_content) against
\* max_upload_size.
UploadRejectionNoSizeCheck(filename, content) ==
    IF filename = "" THEN "No file provided"
    ELSE IF Suffix(filename) \notin supported_extensions THEN "Unsupported file type"
    ELSE IF content = "empty" THEN "Empty file uploaded"
    ELSE None

\* The first failing validation of upload_document, or None.
UploadRejection(filename, content) ==
    IF filename = "" THEN "No file provided"
    ELSE IF Suffix(filename) \notin supported_extensions THEN "Unsupported file type"
    ELSE IF content = "empty" THEN "Empty file uploaded"
    ELSE IF content = "too_large" THEN "File too large"
    ELSE None

\* The upload passes the validations and the limit: it draws a uuid.
DrawsUuid(user_id, filename, content) ==
    UploadRejection(filename, content) = None /\ ~DocumentLimitReached(user_id)

\* io: "ok", or the step after the flag is set that raises:
\* "file" (open/write of the temp file) or "set" (the initial doc_ref.set).
UploadDocument(user_id, filename, content, io) ==
    LET rejection == UploadRejection(filename, content) IN
    IF rejection # None THEN
        /\ resp' = [op |-> "upload", code |-> 400, detail |-> rejection,
                    document_id |-> None]
        /\ UNCHANGED <<documents, vectorstores, processing_status, tasks, files, issued>>
    ELSE IF DocumentLimitReached(user_id) THEN
        /\ resp' = [op |-> "upload", code |-> 403,
                    detail |-> "Document limit reached", document_id |-> None]
        /\ UNCHANGED <<documents, vectorstores, processing_status, tasks, files, issued>>
    ELSE
        /\ LET document_id == Uuid(issued + 1)
               key == store_key(user_id, document_id) IN
           /\ issued' = issued + 1
           /\ processing_status' = DictSet(processing_status, key, TRUE)
           /\ files' = IF io = "file" THEN files ELSE files \cup {document_id}
           /\ documents' =
                 IF io = "ok"
                 THEN DictSet(documents, document_id,
                              [document_id |-> document_id, user_id |-> user_id,
                               filename |-> filename, status |-> "processing"])
                 ELSE documents
           /\ tasks' =
                 IF io = "ok"
                 THEN DictSet(tasks, document_id,
                              [user_id |-> user_id, filename |-> filename,
                               pc |-> "build", error |-> None, raised |-> FALSE,
                               loaded |-> <<>>, built |-> 0,
                               total_length |-> 0, chunk_size |-> 0,
                               chunk_overlap |-> 0, deleted |-> "no"])
                 ELSE tasks
           /\ resp' =
                 IF io = "ok"
                 THEN [op |-> "upload", code |-> 200,
                       detail |-> "File uploaded successfully. Processing in background...",
                       document_id |-> document_id]
                 ELSE [op |-> "upload", code |-> 500,
                       detail |-> "Internal server error", document_id |-> None]
           /\ UNCHANGED vectorstores

----------------------------------------------------------------------------
\* process_document, run by the background worker for document_id.

\* min(a, b), max(a, b)
Min(a, b) == IF a < b THEN a ELSE b

Max(a, b) == IF a > b THEN a ELSE b

\* A text is modelled by its number of characters, len(text); a loaded document
\* (the list loader.load() returns) by the sequence of the lengths of its
\* segments' page_content.

\* _count_tokens: len(text) // 4
_count_tokens(chars) == chars \div 4

\* _get_chunk_size with the bands closed above: a length on a boundary falls in
\* the lower band.
GetChunkSizeLowerAtBoundary(doc_length) ==
    IF doc_length <= 5000 THEN <<500, 100>>
    ELSE IF doc_length <= 50000 THEN <<1000, 200>>
    ELSE <<1500, 300>>

\* _get_chunk_size: (chunk_size, chunk_overlap) of the band of doc_length.
_get_chunk_size(doc_length) ==
    IF doc_length < 5000 THEN <<500, 100>>
    ELSE IF doc_length < 50000 THEN <<1000, 200>>
    ELSE <<1500, 300>>

\* sum(self._count_tokens(doc.page_content) for doc in documents)
RECURSIVE TotalLength(_)
TotalLength(loaded) ==
    IF loaded = <<>> THEN 0
    ELSE _count_tokens(Head(loaded)) + TotalLength(Tail(loaded))

\* Chunking with the overlap clamped to half of the chunk size.
ChunkingHalfOverlap(total_length) ==
    LET band == _get_chunk_size(total_length) IN
    IF total_length < 100
    THEN [chunk_size |-> band[1], chunk_overlap |-> band[2]]
    ELSE LET chunk_size == Min(band[1], Max(100, total_length - 50)) IN
         [chunk_size |-> chunk_size,
          chunk_overlap |-> Min(band[2], chunk_size \div 2)]

\* chunk_size and chunk_overlap of process_document once the splitter, if any,
\* has been set up (lines 134 to 142): the band values, clamped when the
\* document is split.
Chunking(total_length) ==
    LET band == _get_chunk_size(total_length) IN
    IF total_length < 100
    THEN [chunk_size |-> band[1], chunk_overlap |-> band[2]]
    ELSE LET chunk_size == Min(band[1], Max(100, total_length - 50)) IN
         [chunk_size |-> chunk_size,
          chunk_overlap |-> Min(band[2], chunk_size \div 4)]

\* RecursiveCharacterTextSplitter on one segment of chars characters, by its
\* contract: windows of chunk_size tokens (4 characters each) that start every
\* chunk_size - chunk_overlap tokens, the last one shorter; nothing for an empty
\* text.  The result is the sequence of the chunks' lengths.
split_text(chars, chunk_size, chunk_overlap) ==
    LET size == 4 * chunk_size
        stride == 4 * (chunk_size - chunk_overlap)
        n == IF chars = 0 THEN 0
             ELSE IF chars <= size THEN 1
             ELSE 1 + ((chars - size + stride - 1) \div stride) IN
    [i \in 1..n |-> IF i < n THEN size ELSE chars - (n - 1) * stride]

\* splitter.split_documents(documents): the chunks of each segment, in order.
RECURSIVE split_documents(_, _, _)
split_documents(loaded, chunk_size, chunk_overlap) ==
    IF loaded = <<>> THEN <<>>
    ELSE split_text(Head(loaded), chunk_size, chunk_overlap)
         \o split_documents(Tail(loaded), chunk_size, chunk_overlap)

\* texts of process_document (lines 137 to 150): the segments as they are for a
\* document of fewer than 100 tokens, the chunks of the splitter otherwise.
\* split_ok = FALSE: the splitter returns no chunk (a text of separators only).
Texts(loaded, split_ok) ==
    LET total_length == TotalLength(loaded)
        chunking == Chunking(total_length) IN
    IF total_length < 100 THEN loaded
    ELSE IF ~split_ok THEN <<>>
    ELSE split_documents(loaded, chunking.chunk_size, chunking.chunk_overlap)

\* embed_documents(texts) for n texts: one call of _embed_text per text, in
\* order, none repeated.  failing: the call that raises (0: none does); the
\* exception leaves the comprehension, so that no later call is made.
embed_documents(n, failing) ==
    [calls |-> IF failing = 0 THEN n ELSE failing, raised |-> failing # 0]

\* The calls of _embed_text that may raise when n texts are embedded: none, the
\* first, the last.
EmbedFailures(n) == {0, 1, n}

\* What loader.load() may return: no segment, or one segment of 4,800
\* characters, which a search for the smaller k of a request returns a part of
\* and a search for the larger k returns whole.
Loaded == {<<>>, <<4800>>}

\* len(texts) of the documents of Loaded.
ChunkCounts == {Len(Texts(loaded, TRUE)) : loaded \in Loaded \ {<<>>}}

\* The object FAISS.from_documents returns for the texts of a built document:
\* every chunk carries this metadata; texts are the lengths of the chunks'
\* page_content, in chunk_index order.
Index(task, document_id) ==
    [user_id |-> task.user_id, document_id |-> document_id,
     filename |-> task.filename, chunks |-> task.built,
     texts |-> Texts(task.loaded, TRUE)]

\* The try block up to FAISS.from_documents: load, split, embed.  Nothing shared
\* is touched.  A failing stage raises and control goes to the except block.
\* load_ok = FALSE: get_document_loader or loader.load() raises; loaded: what
\* load() returns; split_ok, failing: see Texts and embed_documents.
ProcBuildFrom(document_id, load_ok, loaded, split_ok, failing) ==
    /\ document_id \in DOMAIN tasks
    /\ tasks[document_id].pc = "build"
    /\ LET total_length == TotalLength(loaded)
           chunking == Chunking(total_length)
           texts == Texts(loaded, split_ok)
           stage == IF ~load_ok THEN "load"
                    ELSE IF loaded = <<>> THEN "empty"
                    ELSE IF texts = <<>> THEN "split"
                    ELSE IF embed_documents(Len(texts), failing).raised THEN "embed"
                    ELSE None IN
       tasks' =
          IF stage # None
          THEN [tasks EXCEPT ![document_id].pc = "except",
                             ![document_id].error = ErrorMessage(stage),
                             ![document_id].loaded = IF load_ok THEN loaded ELSE <<>>]
          ELSE [tasks EXCEPT ![document_id].pc = "register",
                             ![document_id].loaded = loaded,
                             ![document_id].built = Len(texts),
                             ![document_id].total_length = total_length,
                             ![document_id].chunk_size = chunking.chunk_size,
                             ![document_id].chunk_overlap = chunking.chunk_overlap]
    /\ UNCHANGED <<documents, vectorstores, processing_status, files, issued, resp>>

\* The build of a document that is one of Loaded.
ProcBuild(document_id) ==
    /\ document_id \in DOMAIN tasks
    /\ tasks[document_id].pc = "build"
    /\ \E load_ok \in BOOLEAN, loaded \in Loaded, split_ok \in BOOLEAN :
          \E failing \in EmbedFailures(Len(Texts(loaded, split_ok))) :
             ProcBuildFrom(document_id, load_ok, loaded, split_ok, failing)

\* ProcRegister clearing the flag as soon as the index is registered.
ProcRegisterClearingFlag(document_id) ==
    /\ document_id \in DOMAIN tasks
    /\ tasks[document_id].pc = "register"
    /\ LET task == tasks[document_id]
           key == store_key(task.user_id, document_id) IN
       /\ vectorstores' = DictSet(vectorstores, key, Index(task, document_id))
       /\ processing_status' = DictSet(processing_status, key, FALSE)
    /\ tasks' = [tasks EXCEPT ![document_id].pc = "set_ready"]
    /\ UNCHANGED <<documents, files, issued, resp>>

\* self.vectorstores[store_key] = vectorstore
ProcRegister(document_id) ==
    /\ document_id \in DOMAIN tasks
    /\ tasks[document_id].pc = "register"
    /\ LET task == tasks[document_id]
           key == store_key(task.user_id, document_id) IN
       vectorstores' = DictSet(vectorstores, key, Index(task, document_id))
    /\ tasks' = [tasks EXCEPT ![document_id].pc = "set_ready"]
    /\ UNCHANGED <<documents, processing_status, files, issued, resp>>

\* doc_ref.set({... "status": "ready" ...}): replaces the whole document, creating
\* it when it does not exist.  store_ok = FALSE: the write raises.
ProcSetReady(document_id, store_ok) ==
    /\ document_id \in DOMAIN tasks
    /\ tasks[document_id].pc = "set_ready"
    /\ LET task == tasks[document_id] IN
       IF store_ok
       THEN /\ documents' =
                 DictSet(documents, document_id,
                         [document_id |-> document_id, user_id |-> task.user_id,
                          filename |-> task.filename, chunks_count |-> task.built,
                          total_length |-> task.total_length,
                          chunk_size |-> task.chunk_size,
                          chunk_overlap |-> task.chunk_overlap,
                          status |-> "ready"])
            /\ tasks' = [tasks EXCEPT ![document_id].pc = "finally"]
       ELSE /\ documents' = documents
            /\ tasks' = [tasks EXCEPT ![document_id].pc = "except",
                                      ![document_id].error = ErrorMessage("set")]
    /\ UNCHANGED <<vectorstores, processing_status, files, issued, resp>>

\* except Exception: doc_ref.update({"status": "error", "error_message": ...}).
\* update raises NotFound when the document does not exist, and raises when the
\* store fails (store_ok = FALSE); either way the exception leaves
\* process_document after the finally block.
ProcExcept(document_id, store_ok) ==
    /\ document_id \in DOMAIN tasks
    /\ tasks[document_id].pc = "except"
    /\ LET written == store_ok /\ document_id \in DOMAIN documents IN
       /\ documents' =
             IF written
             THEN DictSet(documents, document_id,
                          Merge([status |-> "error",
                                 error_message |-> tasks[document_id].error],
                                documents[document_id]))
             ELSE documents
       /\ tasks' = [tasks EXCEPT ![document_id].pc = "finally",
                                 ![document_id].raised = ~written]
    /\ UNCHANGED <<vectorstores, processing_status, files, issued, resp>>

\* ProcFinally with the flag cleared after the except block instead of in a
\* finally block: an exception leaving the except block skips it.
ProcFinallySkippedOnRaise(document_id, rm_ok) ==
    /\ document_id \in DOMAIN tasks
    /\ tasks[document_id].pc = "finally"
    /\ processing_status' =
          IF tasks[document_id].raised THEN processing_status
          ELSE DictSet(processing_status,
                       store_key(tasks[document_id].user_id, document_id), FALSE)
    /\ files' = IF rm_ok THEN files \ {document_id} ELSE files
    /\ tasks' = [tasks EXCEPT ![document_id].pc = "done"]
    /\ UNCHANGED <<documents, vectorstores, issued, resp>>

\* finally: the flag is set to False and the temp file removed.  rm_ok = FALSE:
\* os.remove raises; the exception is caught and printed, the file stays.
ProcFinally(document_id, rm_ok) ==
    /\ document_id \in DOMAIN tasks
    /\ tasks[document_id].pc = "finally"
    /\ processing_status' =
          DictSet(processing_status,
                  store_key(tasks[document_id].user_id, document_id), FALSE)
    /\ files' = IF rm_ok THEN files \ {document_id} ELSE files
    /\ tasks' = [tasks EXCEPT ![document_id].pc = "done"]
    /\ UNCHANGED <<documents, vectorstores, issued, resp>>

----------------------------------------------------------------------------
\* Request handlers.

\* doc_data.get(field, default)
FieldGet(doc_data, field, default) ==
    IF field \in DOMAIN doc_data THEN doc_data[field] ELSE default

\* Details of the HTTPExceptions of ask_question.
StillProcessing ==
    "Document is still processing. Please wait a moment and try again."

VectorstoreNotFound == "Document vectorstore not found. Processing may have failed."

\* What a request is answered with: the HTTP status code and, for an
\* HTTPException, its detail.  Responses carry what the code returns and no echo
\* of the caller; a status response also names the document of the path it
\* answers (GET /document/{document_id}/status).
Rejected(op, code, detail) == [op |-> op, code |-> code, detail |-> detail]

\* get_status
GetStatus(user_id, document_id) ==
    LET key == store_key(user_id, document_id) IN
    /\ resp' =
          IF document_id \notin DOMAIN documents
          THEN Rejected("status", 404, "Document not found")
          ELSE IF FieldGet(documents[document_id], "user_id", None) # user_id
          THEN Rejected("status", 403, "Not authorized to access this document")
          ELSE LET doc_data == documents[document_id]
                   processing == DictGet(processing_status, key, FALSE)
                   is_ready == key \in DOMAIN vectorstores /\ ~processing IN
               [op |-> "status", code |-> 200, detail |-> "ok",
                document_id |-> document_id,
                processing |-> processing,
                ready |-> is_ready,
                status |-> IF is_ready THEN "ready"
                           ELSE FieldGet(doc_data, "status", "processing"),
                filename |-> FieldGet(doc_data, "filename", None),
                chunks_count |-> FieldGet(doc_data, "chunks_count", None),
                error |-> FieldGet(doc_data, "error_message", None)]
    /\ UNCHANGED <<documents, vectorstores, processing_status, tasks, files, issued>>

\* HTTPException raised by ask_question before any retrieval.
\* retrieved_from: the (user_id, document_id) metadata of the chunks that make up
\* the context and source_documents (empty: nothing was retrieved);
\* llm_called: whether call_gemini_llm ran.
AskRejected(code, detail) ==
    [op |-> "ask", code |-> code, detail |-> detail,
     retrieved_from |-> {}, chunks_used |-> 0, llm_called |-> FALSE,
     answer |-> None, source_documents |-> <<>>]

\* len(docs) of the search for k chunks in an index of n chunks.  The search is
\* a call into the FAISS library: it returns min(k, n) chunks or, as the code
\* provides for, an empty list.
Retrieved(k, n) == {0, IF k < n THEN k ELSE n}

\* The "content" of a source_documents entry for a chunk of chars characters
\* (line 438): shown characters of the chunk, from its first one, followed by
\* "..." when ellipsis.
Preview(chars) ==
    IF chars > 200 THEN [shown |-> 200, ellipsis |-> TRUE]
    ELSE [shown |-> chars, ellipsis |-> FALSE]

\* source_documents for the docs chunks retrieved in the index vector_store.
\* The search ranks the chunks by their similarity to the question; the
\* questions modelled are those that rank them in chunk_index order.
SourceDocuments(vector_store, docs) ==
    [i \in 1..docs |->
        [content |-> Preview(vector_store.texts[i]),
         filename |-> vector_store.filename,
         chunk_index |-> i - 1]]

\* AskAnswer without the test of an empty docs: the language model is called
\* whatever was retrieved.
AskAnswerAlwaysCalling(key, docs, llm_ok) ==
    LET vector_store == vectorstores[key]
        source == {<<vector_store.user_id, vector_store.document_id>>} IN
    [op |-> "ask", code |-> 200, detail |-> "ok",
     retrieved_from |-> IF docs = 0 THEN {} ELSE source, chunks_used |-> docs,
     llm_called |-> TRUE,
     answer |-> IF llm_ok THEN "answer"
                ELSE "Error: Could not get response from Gemini",
     source_documents |-> SourceDocuments(vector_store, docs)]

\* The answer of ask_question from the docs chunks retrieved in the index under
\* key.
AskAnswer(key, docs, llm_ok) ==
    LET vector_store == vectorstores[key]
        source == {<<vector_store.user_id, vector_store.document_id>>} IN
    IF docs = 0
    THEN [op |-> "ask", code |-> 200, detail |-> "ok",
          retrieved_from |-> {}, chunks_used |-> 0,
          llm_called |-> FALSE,
          answer |-> "I couldn't find any relevant information in the documents to answer this question.",
          source_documents |-> <<>>]
    ELSE [op |-> "ask", code |-> 200, detail |-> "ok",
          retrieved_from |-> source, chunks_used |-> docs,
          llm_called |-> TRUE,
          answer |-> IF llm_ok THEN "answer"
                     ELSE "Error: Could not get response from Gemini",
          source_documents |-> SourceDocuments(vector_store, docs)]

\* ask_question reporting every missing index as "Document not found".
AskQuestionOneNotFound(user_id, document_id, k) ==
    LET key == store_key(user_id, document_id) IN
    /\ resp' \in
          IF DictGet(processing_status, key, FALSE)
          THEN {AskRejected(202, StillProcessing)}
          ELSE IF key \notin DOMAIN vectorstores
          THEN {AskRejected(404, "Document not found")}
          ELSE {AskAnswer(key, docs, llm_ok) :
                   docs \in Retrieved(k, vectorstores[key].chunks),
                   llm_ok \in BOOLEAN}
    /\ UNCHANGED <<documents, vectorstores, processing_status, tasks, files, issued>>

\* ask_question without the test of processing_status.
AskQuestionIgnoringFlag(user_id, document_id, k) ==
    LET key == store_key(user_id, document_id) IN
    /\ resp' \in
          IF key \notin DOMAIN vectorstores
          THEN IF document_id \notin DOMAIN documents
               THEN {AskRejected(404, "Document not found")}
               ELSE IF FieldGet(documents[document_id], "user_id", None) # user_id
               THEN {AskRejected(403, "Not authorized to access this document")}
               ELSE {AskRejected(404, VectorstoreNotFound)}
          ELSE {AskAnswer(key, docs, llm_ok) :
                   docs \in Retrieved(k, vectorstores[key].chunks),
                   llm_ok \in BOOLEAN}
    /\ UNCHANGED <<documents, vectorstores, processing_status, tasks, files, issued>>

\* ask_question.  k: the number of chunks asked for.  docs: the number of
\* chunks the search returns.  llm_ok, chosen when the language model is
\* called: whether that request succeeds (call_gemini_llm returns an error
\* text when it does not).
AskQuestion(user_id, document_id, k) ==
    LET key == store_key(user_id, document_id) IN
    /\ resp' \in
          IF DictGet(processing_status, key, FALSE)
          THEN {AskRejected(202, StillProcessing)}
          ELSE IF key \notin DOMAIN vectorstores
          THEN IF document_id \notin DOMAIN documents
               THEN {AskRejected(404, "Document not found")}
               ELSE IF FieldGet(documents[document_id], "user_id", None) # user_id
               THEN {AskRejected(403, "Not authorized to access this document")}
               ELSE {AskRejected(404, VectorstoreNotFound)}
          ELSE {AskAnswer(key, docs, llm_ok) :
                   docs \in Retrieved(k, vectorstores[key].chunks),
                   llm_ok \in BOOLEAN}
    /\ UNCHANGED <<documents, vectorstores, processing_status, tasks, files, issued>>

\* ask_question in two steps, for the interleavings with the worker thread of
\* process_document: the handler reads processing_status (line 385) and later
\* vectorstores (line 392), and the worker may write both in between.  The
\* record is read only when no index was found and decides only which of the
\* three reports is raised; it is read in the second step.
\*
\* AskBegin: the test of the flag.  The request that goes on is kept in resp.
AskBegin(user_id, document_id, k) ==
    /\ resp' =
          IF DictGet(processing_status, store_key(user_id, document_id), FALSE)
          THEN AskRejected(202, StillProcessing)
          ELSE [op |-> "asking", user_id |-> user_id,
                document_id |-> document_id, k |-> k]
    /\ UNCHANGED <<documents, vectorstores, processing_status, tasks, files, issued>>

\* AskEnd: vectorstores.get(store_key) and what follows it.
AskEnd ==
    /\ resp.op = "asking"
    /\ LET user_id == resp.user_id
           document_id == resp.document_id
           key == store_key(user_id, document_id) IN
       resp' \in
          IF key \notin DOMAIN vectorstores
          THEN IF document_id \notin DOMAIN documents
               THEN {AskRejected(404, "Document not found")}
               ELSE IF FieldGet(documents[document_id], "user_id", None) # user_id
               THEN {AskRejected(403, "Not authorized to access this document")}
               ELSE {AskRejected(404, VectorstoreNotFound)}
          ELSE {AskAnswer(key, docs, llm_ok) :
                   docs \in Retrieved(resp.k, vectorstores[key].chunks),
                   llm_ok \in BOOLEAN}
    /\ UNCHANGED <<documents, vectorstores, processing_status, tasks, files, issued>>

\* delete_document without the ownership test.
DeleteDocumentAnyCaller(user_id, document_id, store_ok) ==
    LET key == store_key(user_id, document_id) IN
    IF document_id \notin DOMAIN documents
    THEN /\ resp' = Rejected("delete", 404, "Document not found")
         /\ UNCHANGED <<documents, vectorstores, processing_status, tasks, files, issued>>
    ELSE IF ~store_ok
    THEN /\ resp' = Rejected("delete", 500, "Internal server error")
         /\ UNCHANGED <<documents, vectorstores, processing_status, tasks, files, issued>>
    ELSE /\ documents' = DictPop(documents, document_id)
         /\ vectorstores' = DictPop(vectorstores, key)
         /\ processing_status' = DictPop(processing_status, key)
         /\ resp' = [op |-> "delete", code |-> 200,
                     detail |-> "Document deleted successfully",
                     document_id |-> document_id]
         /\ UNCHANGED <<tasks, files, issued>>

\* delete_document that removes the record and leaves the index in memory.
DeleteDocumentKeepingIndex(user_id, document_id, store_ok) ==
    LET key == store_key(user_id, document_id) IN
    IF document_id \notin DOMAIN documents
    THEN /\ resp' = Rejected("delete", 404, "Document not found")
         /\ UNCHANGED <<documents, vectorstores, processing_status, tasks, files, issued>>
    ELSE IF FieldGet(documents[document_id], "user_id", None) # user_id
    THEN /\ resp' = Rejected("delete", 403,
                         "Not authorized to delete this document")
         /\ UNCHANGED <<documents, vectorstores, processing_status, tasks, files, issued>>
    ELSE IF ~store_ok
    THEN /\ resp' = Rejected("delete", 500, "Internal server error")
         /\ UNCHANGED <<documents, vectorstores, processing_status, tasks, files, issued>>
    ELSE /\ documents' = DictPop(documents, document_id)
         /\ processing_status' = DictPop(processing_status, key)
         /\ tasks' =
               IF document_id \notin DOMAIN tasks THEN tasks
               ELSE IF tasks[document_id].pc # "done"
               THEN [tasks EXCEPT ![document_id].deleted = "in_flight"]
               ELSE IF documents[document_id].status = "ready"
                       /\ key \in DOMAIN vectorstores
               THEN [tasks EXCEPT ![document_id].deleted = "ready"]
               ELSE [tasks EXCEPT ![document_id].deleted =
                                     IF @ = "no" THEN "ended" ELSE @]
         /\ resp' = [op |-> "delete", code |-> 200,
                     detail |-> "Document deleted successfully",
                     document_id |-> document_id]
         /\ UNCHANGED <<vectorstores, files, issued>>

\* delete_document removing the index and the flag and leaving the record.
DeleteDocumentKeepingRecord(user_id, document_id, store_ok) ==
    LET key == store_key(user_id, document_id) IN
    IF document_id \notin DOMAIN documents
    THEN /\ resp' = Rejected("delete", 404, "Document not found")
         /\ UNCHANGED <<documents, vectorstores, processing_status, tasks, files, issued>>
    ELSE IF FieldGet(documents[document_id], "user_id", None) # user_id
    THEN /\ resp' = Rejected("delete", 403,
                         "Not authorized to delete this document")
         /\ UNCHANGED <<documents, vectorstores, processing_status, tasks, files, issued>>
    ELSE IF ~store_ok
    THEN /\ resp' = Rejected("delete", 500, "Internal server error")
         /\ UNCHANGED <<documents, vectorstores, processing_status, tasks, files, issued>>
    ELSE /\ vectorstores' = DictPop(vectorstores, key)
         /\ processing_status' = DictPop(processing_status, key)
         /\ tasks' =
               IF document_id \notin DOMAIN tasks THEN tasks
               ELSE IF tasks[document_id].pc # "done"
               THEN [tasks EXCEPT ![document_id].deleted = "in_flight"]
               ELSE IF documents[document_id].status = "ready"
                       /\ key \in DOMAIN vectorstores
               THEN [tasks EXCEPT ![document_id].deleted = "ready"]
               ELSE [tasks EXCEPT ![document_id].deleted =
                                     IF @ = "no" THEN "ended" ELSE @]
         /\ resp' = [op |-> "delete", code |-> 200,
                     detail |-> "Document deleted successfully",
                     document_id |-> document_id]
         /\ UNCHANGED <<documents, files, issued>>

\* delete_document.  store_ok = FALSE: doc_ref.delete() raises, which the route's
\* handle_exceptions turns into a 500 before anything is popped.
\* tasks[d].deleted records (for the properties only) when the delete succeeded.
DeleteDocument(user_id, document_id, store_ok) ==
    LET key == store_key(user_id, document_id) IN
    IF document_id \notin DOMAIN documents
    THEN /\ resp' = Rejected("delete", 404, "Document not found")
         /\ UNCHANGED <<documents, vectorstores, processing_status, tasks, files, issued>>
    ELSE IF FieldGet(documents[document_id], "user_id", None) # user_id
    THEN /\ resp' = Rejected("delete", 403,
                         "Not authorized to delete this document")
         /\ UNCHANGED <<documents, vectorstores, processing_status, tasks, files, issued>>
    ELSE IF ~store_ok
    THEN /\ resp' = Rejected("delete", 500, "Internal server error")
         /\ UNCHANGED <<documents, vectorstores, processing_status, tasks, files, issued>>
    ELSE /\ documents' = DictPop(documents, document_id)
         /\ vectorstores' = DictPop(vectorstores, key)
         /\ processing_status' = DictPop(processing_status, key)
         /\ tasks' =
               IF document_id \notin DOMAIN tasks THEN tasks
               ELSE IF tasks[document_id].pc # "done"
               THEN [tasks EXCEPT ![document_id].deleted = "in_flight"]
               ELSE IF documents[document_id].status = "ready"
                       /\ key \in DOMAIN vectorstores
               THEN [tasks EXCEPT ![document_id].deleted = "ready"]
               ELSE [tasks EXCEPT ![document_id].deleted =
                                     IF @ = "no" THEN "ended" ELSE @]
         /\ resp' = [op |-> "delete", code |-> 200,
                     detail |-> "Document deleted successfully",
                     document_id |-> document_id]
         /\ UNCHANGED <<files, issued>>

\* POST /document/cleanup: the route calls document_service.
\* cleanup_orphaned_vectorstores(), a method DocumentService does not define:
\* the AttributeError becomes a 500 in handle_exceptions.
CleanupOrphanedVectorstores(user_id) ==
    /\ resp' = Rejected("cleanup", 500, "Internal server error")
    /\ UNCHANGED <<documents, vectorstores, processing_status, tasks, files, issued>>

----------------------------------------------------------------------------
\* k of a request: 5 for /ask, 1..20 for /chat.
Ks == {1, 5}

\* The model has a uuid left for the upload, if it draws one: issued < n.
UuidLeft(n, user_id, filename, content) ==
    DrawsUuid(user_id, filename, content) => issued < n

Next ==
    \/ \E u \in Users, in \in UploadInputs :
          UuidLeft(MaxUploads, u, in[1], in[2]) /\ UploadDocument(u, in[1], in[2], "ok")
    \/ \E u \in Users, io \in {"file", "set"} :
          UuidLeft(MaxUploads, u, "a.txt", "ok") /\ UploadDocument(u, "a.txt", "ok", io)
    \/ \E d \in DocIds : ProcBuild(d)
    \/ \E d \in DocIds : ProcRegister(d)
    \/ \E d \in DocIds, ok \in BOOLEAN : ProcSetReady(d, ok)
    \/ \E d \in DocIds, ok \in BOOLEAN : ProcExcept(d, ok)
    \/ \E d \in DocIds, ok \in BOOLEAN : ProcFinally(d, ok)
    \/ \E u \in Users, d \in DocIds : GetStatus(u, d)
    \/ \E in \in AskInputs, k \in Ks : AskQuestion(in[1], in[2], k)
    \/ \E u \in Users, d \in DocIds, ok \in BOOLEAN : DeleteDocument(u, d, ok)
    \/ \E u \in Users : CleanupOrphanedVectorstores(u)

Spec == Init /\ [][Next]_vars

\* A step of the process_document run of document_id.
ProcStep(document_id) ==
    \/ ProcBuild(document_id)
    \/ ProcRegister(document_id)
    \/ \E ok \in BOOLEAN : ProcSetReady(document_id, ok)
    \/ \E ok \in BOOLEAN : ProcExcept(document_id, ok)
    \/ \E ok \in BOOLEAN : ProcFinally(document_id, ok)

\* The worker thread is scheduled: a run that can take a step takes one.
FairSpec == Spec /\ \A d \in DocIds : WF_vars(ProcStep(d))

\* One document more than Spec, and only the operations that write the shared
\* state: get_status, ask_question and the cleanup route change nothing but
\* resp, so that the documents, indices, flags, tasks and files reachable are
\* those of all operations.
TwoUploads == MaxUploads + 1

DocIdsTwo == {Uuid(i) : i \in 1..TwoUploads}

NextTwo ==
    \/ \E u \in Users, in \in UploadInputs :
          UuidLeft(TwoUploads, u, in[1], in[2]) /\ UploadDocument(u, in[1], in[2], "ok")
    \/ \E u \in Users, io \in {"file", "set"} :
          UuidLeft(TwoUploads, u, "a.txt", "ok") /\ UploadDocument(u, "a.txt", "ok", io)
    \/ \E d \in DocIdsTwo : ProcBuild(d)
    \/ \E d \in DocIdsTwo : ProcRegister(d)
    \/ \E d \in DocIdsTwo, ok \in BOOLEAN : ProcSetReady(d, ok)
    \/ \E d \in DocIdsTwo, ok \in BOOLEAN : ProcExcept(d, ok)
    \/ \E d \in DocIdsTwo, ok \in BOOLEAN : ProcFinally(d, ok)
    \/ \E u \in Users, d \in DocIdsTwo, ok \in BOOLEAN : DeleteDocument(u, d, ok)

SpecTwo == Init /\ [][NextTwo]_vars

\* ask_question in two steps.  The handlers run one at a time on the event
\* loop: none starts while ask_question is under way (Idle); the steps of
\* process_document, on the worker thread, are taken at any time.  get_status
\* and the cleanup route, which write nothing but resp, are left out.
Idle == resp.op # "asking"

NextInterleaved ==
    \/ \E u \in Users, in \in UploadInputs :
          /\ Idle
          /\ UuidLeft(MaxUploads, u, in[1], in[2])
          /\ UploadDocument(u, in[1], in[2], "ok")
    \/ \E u \in Users, io \in {"file", "set"} :
          /\ Idle
          /\ UuidLeft(MaxUploads, u, "a.txt", "ok")
          /\ UploadDocument(u, "a.txt", "ok", io)
    \/ \E d \in DocIds : ProcBuild(d)
    \/ \E d \in DocIds : ProcRegister(d)
    \/ \E d \in DocIds, ok \in BOOLEAN : ProcSetReady(d, ok)
    \/ \E d \in DocIds, ok \in BOOLEAN : ProcExcept(d, ok)
    \/ \E d \in DocIds, ok \in BOOLEAN : ProcFinally(d, ok)
    \/ \E in \in AskInputs, k \in Ks : Idle /\ AskBegin(in[1], in[2], k)
    \/ AskEnd
    \/ \E u \in Users, d \in DocIds, ok \in BOOLEAN : Idle /\ DeleteDocument(u, d, ok)

SpecInterleaved == Init /\ [][NextInterleaved]_vars

\* The ingestion of one document whose text is one of many, and the questions
\* of its owner about it.
\*
\* Largest number of segments of a loaded document.
MaxSegments == 2

\* len(page_content) of a segment: the lengths around 200 characters (the
\* preview), around 100 tokens and 150 tokens (no splitting, the clamp),
\* around 550 tokens (the clamp ends), 12,000 characters, and around the band
\* boundaries of 5,000 and 50,000 tokens.
SegmentChars ==
    {0, 3, 150, 200, 201, 396, 399, 400, 403, 404, 596, 600, 604,
     2196, 2200, 2204, 12000, 19996, 20000, 20004, 199996, 200000, 200004}

\* len(page_content) of the segments of a document of several segments (the
\* pages of a short PDF): a page without text, and two pages that are not split.
PageChars == {0, 150, 200}

\* What loader.load() may return: no segment, one segment of text, or up to
\* MaxSegments pages.
LoadedTexts ==
    {<<>>} \cup {<<chars>> : chars \in SegmentChars}
           \cup UNION {[1..n -> PageChars] : n \in 2..MaxSegments}

\* The one uploader of SpecChunking and SpecLimit.
Uploader == "a"

NextChunking ==
    \/ issued = 0 /\ UploadDocument(Uploader, "a.txt", "ok", "ok")
    \/ \E d \in DocIds, load_ok \in BOOLEAN, loaded \in LoadedTexts, split_ok \in BOOLEAN :
          \E failing \in EmbedFailures(Len(Texts(loaded, split_ok))) :
             ProcBuildFrom(d, load_ok, loaded, split_ok, failing)
    \/ \E d \in DocIds : ProcRegister(d)
    \/ \E d \in DocIds, ok \in BOOLEAN : ProcSetReady(d, ok)
    \/ \E d \in DocIds, ok \in BOOLEAN : ProcExcept(d, ok)
    \/ \E d \in DocIds, ok \in BOOLEAN : ProcFinally(d, ok)
    \/ \E d \in DocIds, k \in Ks : AskQuestion(Uploader, d, k)

SpecChunking == Init /\ [][NextChunking]_vars

\* One user who uploads one document more than the limit allows to keep, with
\* a metadata store and a file system that do not fail.
LimitUploads == MAX_DOCUMENTS + 1

DocIdsLimit == {Uuid(i) : i \in 1..LimitUploads}

NextLimit ==
    \/ /\ UuidLeft(LimitUploads, Uploader, "a.txt", "ok")
       /\ UploadDocument(Uploader, "a.txt", "ok", "ok")
    \/ \E d \in DocIdsLimit : ProcBuild(d)
    \/ \E d \in DocIdsLimit : ProcRegister(d)
    \/ \E d \in DocIdsLimit : ProcSetReady(d, TRUE)
    \/ \E d \in DocIdsLimit : ProcExcept(d, TRUE)
    \/ \E d \in DocIdsLimit : ProcFinally(d, TRUE)
    \/ \E d \in DocIdsLimit : DeleteDocument(Uploader, d, TRUE)

SpecLimit == Init /\ [][NextLimit]_vars

----------------------------------------------------------------------------
\* Properties.  A property about what a handler answers is an action property
\* over the handler's steps: resp' is the answer and the unprimed variables are
\* the state the request met.  (A request that leaves resp as it was is a
\* stuttering step; the same request is also made right after a request with
\* another answer, e.g. the cleanup route, and that step is checked.)

\* The document's process_document run has been scheduled and has not ended.
InFlight(d) == d \in DOMAIN tasks /\ tasks[d].pc # "done"

\* The document's process_document run has ended.
Ended(d) == d \in DOMAIN tasks /\ tasks[d].pc = "done"

\* The key process_document uses for document d.
TaskKey(d) == store_key(tasks[d].user_id, d)

\* self.processing_status.get(key) is true.
FlagSet(key) == DictGet(processing_status, key, FALSE)

\* The steps ask_question can take: it answers and changes nothing else.
AskStep ==
    /\ resp'.op = "ask"
    /\ UNCHANGED <<documents, vectorstores, processing_status, tasks, files, issued>>

\* C1: tenant isolation.  Whatever document id a user supplies, ask_question
\* answers only from an index process_document registered for that same user
\* (stated for the documents no delete has touched).
C1_TenantIsolation ==
    [][\A in \in AskInputs, k \in Ks :
          AskQuestion(in[1], in[2], k) =>
              \A source \in resp'.retrieved_from :
                  tasks[source[2]].deleted = "no" => source[1] = in[1]]_vars

\* C2: monotonic status.  With no delete of the document, a get_status of the
\* owner that follows one that reported a terminal status (ready or error)
\* reports that same status.
C2_MonotonicStatus ==
    [][\A u \in Users, d \in DocIds :
          (/\ GetStatus(u, d)
           /\ resp'.code = 200
           /\ tasks[d].deleted = "no"
           /\ resp.op = "status" /\ resp.code = 200 /\ resp.document_id = d
           /\ resp.status \in {"ready", "error"})
          => resp'.status = resp.status]_vars

\* C3: a process_document run that failed at some stage and whose except block
\* wrote the error status ends with the record in status "error", carrying the
\* captured message, and with no index registered under the document's key.
C3_FailureLeavesErrorAndNoIndex ==
    \A d \in DOMAIN tasks :
        (/\ Ended(d)
         /\ tasks[d].error # None
         /\ ~tasks[d].raised
         /\ tasks[d].deleted = "no"
         /\ d \in DOMAIN documents)
        => /\ documents[d].status = "error"
           /\ FieldGet(documents[d], "error_message", None) = tasks[d].error
           /\ TaskKey(d) \notin DOMAIN vectorstores

\* C4: once a process_document run has ended, however it ended, the processing
\* flag of its key is not true.
C4_FlagClearedWhenRunEnds ==
    \A d \in DOMAIN tasks : Ended(d) => ~FlagSet(TaskKey(d))

\* C4's case: a run has ended through an except block that itself raised.
C4_Witness ==
    \E d \in DOMAIN tasks :
        /\ Ended(d)
        /\ tasks[d].raised
        /\ TaskKey(d) \in DOMAIN processing_status
        /\ processing_status[TaskKey(d)] = FALSE

\* C5: while a document's process_document run has not ended and the document
\* has not been deleted, every ask_question of the uploader for it is answered
\* 202 "still processing", with nothing retrieved and no language-model call.
C5_StillProcessing ==
    [][AskStep =>
          \A u \in Users, d \in DocIds, k \in Ks :
             (/\ InFlight(d)
              /\ tasks[d].user_id = u
              /\ tasks[d].deleted = "no"
              /\ AskQuestion(u, d, k))
             => /\ resp'.code = 202
                /\ resp'.detail = StillProcessing
                /\ resp'.retrieved_from = {}
                /\ ~resp'.llm_called]_vars

\* C5's case: the uploader was answered 202 and the run, not yet ended, has
\* already registered the index.
C5_Witness ==
    /\ resp.op = "ask" /\ resp.code = 202
    /\ \E d \in DOMAIN tasks :
          /\ tasks[d].pc = "set_ready"
          /\ tasks[d].deleted = "no"
          /\ TaskKey(d) \in DOMAIN vectorstores

\* C6: when delete_document succeeded while the document's run was in flight,
\* the run ends with no metadata record for the document and no index under
\* its key.
C6_DeletedInFlightStaysDeleted ==
    \A d \in DOMAIN tasks :
        (Ended(d) /\ tasks[d].deleted = "in_flight")
        => /\ d \notin DOMAIN documents
           /\ TaskKey(d) \notin DOMAIN vectorstores

\* What ask_question must report for (u, d) when it finds no index under the
\* key and the flag is not set.
MissingIndexReport(u, d) ==
    IF d \notin DOMAIN documents THEN <<404, "Document not found">>
    ELSE IF documents[d].user_id # u
    THEN <<403, "Not authorized to access this document">>
    ELSE <<404, VectorstoreNotFound>>

\* The three reports MissingIndexReport chooses from.
MissingIndexReports ==
    {<<404, "Document not found">>,
     <<403, "Not authorized to access this document">>,
     <<404, VectorstoreNotFound>>}

\* C7: an ask_question that finds no index under its key, the flag not being
\* set, reports NotFound when the document has no record, Forbidden when the
\* record has another owner and VectorStoreMissing when the caller owns it;
\* the three reports differ.
C7_ThreeFailureReports ==
    [][AskStep =>
          /\ Cardinality(MissingIndexReports) = 3
          /\ \A in \in AskInputs :
                LET u == in[1]
                    d == in[2] IN
                (/\ store_key(u, d) \notin DOMAIN vectorstores
                 /\ ~FlagSet(store_key(u, d)))
                => \A k \in Ks :
                      AskQuestion(u, d, k)
                      => /\ <<resp'.code, resp'.detail>> = MissingIndexReport(u, d)
                         /\ resp'.retrieved_from = {}]_vars

\* C7's case: the owner asked about a document whose run ended in error, and
\* was told that the index is missing.
C7_Witness ==
    /\ resp.op = "ask" /\ resp.detail = VectorstoreNotFound
    /\ \E d \in DOMAIN documents :
          /\ documents[d].status = "error"
          /\ Ended(d)
          /\ TaskKey(d) \notin DOMAIN vectorstores

\* Nothing of document d of user u is left: no record, no index, no flag.
Gone(u, d) ==
    /\ d \notin DOMAIN documents
    /\ store_key(u, d) \notin DOMAIN vectorstores
    /\ store_key(u, d) \notin DOMAIN processing_status

\* C8: once delete_document(d, u) has succeeded on the ready document, the
\* record, the index and the flag are absent, and ask_question(d, u) is
\* answered NotFound from then on.
C8_DeletedReadyIsGone ==
    [][\A u \in Users, d \in DocIds :
          LET DeletedReady == /\ d \in DOMAIN tasks
                              /\ tasks[d].user_id = u
                              /\ tasks[d].deleted = "ready" IN
          /\ DeletedReady' => Gone(u, d)'
          /\ \A k \in Ks :
                (DeletedReady /\ AskQuestion(u, d, k))
                => /\ resp'.code = 404
                   /\ resp'.detail = "Document not found"
                   /\ resp'.retrieved_from = {}]_vars

\* C8's case: the ready document was deleted and its owner, asking again, was
\* answered NotFound.
C8_Witness ==
    /\ resp.op = "ask" /\ resp.code = 404 /\ resp.detail = "Document not found"
    /\ \E d \in DOMAIN tasks : tasks[d].deleted = "ready"

\* What get_status (op = "access") and delete_document (op = "delete") must
\* report for (u, d) before doing anything else; <<200, "">>: they go on.
OwnershipReport(op, u, d) ==
    IF d \notin DOMAIN documents THEN <<404, "Document not found">>
    ELSE IF documents[d].user_id # u
    THEN <<403, "Not authorized to " \o op \o " this document">>
    ELSE <<200, "">>

\* C9: get_status and delete_document answer NotFound when the document has no
\* record and otherwise Forbidden when the record's owner is not the caller,
\* and a delete_document answered that way changes nothing in the metadata
\* store, vectorstores and processing_status.
C9_NotFoundForbidden ==
    [][resp'.op \in {"status", "delete"} =>
          \A u \in Users, d \in DocIds :
             /\ (OwnershipReport("access", u, d)[1] # 200 /\ GetStatus(u, d))
                => <<resp'.code, resp'.detail>> = OwnershipReport("access", u, d)
             /\ \A ok \in BOOLEAN :
                   (OwnershipReport("delete", u, d)[1] # 200 /\ DeleteDocument(u, d, ok))
                   => /\ <<resp'.code, resp'.detail>> = OwnershipReport("delete", u, d)
                      /\ UNCHANGED <<documents, vectorstores, processing_status>>]_vars

\* C9's case: a delete by a user who is not the owner was answered Forbidden
\* while the owner's record, index and flag exist.
C9_Witness ==
    /\ resp.op = "delete" /\ resp.code = 403
    /\ \E d \in DOMAIN documents :
          /\ store_key(documents[d].user_id, d) \in DOMAIN vectorstores
          /\ store_key(documents[d].user_id, d) \in DOMAIN processing_status

\* C10: after the cleanup route has run, every index left in vectorstores
\* belongs to a document that has a metadata record, and every index of a
\* document with a record is still there.
C10_CleanupEvictsOrphans ==
    [][\A u \in Users :
          CleanupOrphanedVectorstores(u)
          => /\ \A key \in DOMAIN vectorstores' :
                   vectorstores'[key].document_id \in DOMAIN documents'
             /\ \A key \in DOMAIN vectorstores :
                   vectorstores[key].document_id \in DOMAIN documents
                   => /\ key \in DOMAIN vectorstores'
                      /\ vectorstores'[key] = vectorstores[key]]_vars

\* C11: an ask_question of the owner about a ready document whose call of the
\* language model fails does not answer 200 with an answer text: it fails with
\* an error.
C11_LlmFailureIsAnError ==
    [][AskStep =>
          \A in \in AskInputs, k \in Ks :
             LET key == store_key(in[1], in[2]) IN
             (/\ in[2] \in DOMAIN documents
              /\ documents[in[2]].user_id = in[1]
              /\ documents[in[2]].status = "ready"
              /\ key \in DOMAIN vectorstores
              /\ ~FlagSet(key)
              /\ AskQuestion(in[1], in[2], k)
              /\ \E docs \in Retrieved(k, vectorstores[key].chunks) \ {0} :
                    resp' = AskAnswer(key, docs, FALSE))
             => /\ resp'.code >= 500
                /\ resp'.answer = None]_vars

\* What can fail in upload_document once it has set the flag.
UploadIo == {"ok", "file", "set"}

\* C12: upload_document answers 400 to an empty filename, an unsupported
\* extension, empty content and content above max_upload_size; an upload
\* answered 400, or 403 for the document limit, leaves the metadata store,
\* vectorstores, processing_status and the transient files as they were and
\* schedules no task.
C12_RejectedUploadChangesNothing ==
    [][resp'.op = "upload" =>
          \A u \in Users, in \in UploadInputs, io \in UploadIo :
             LET invalid == \/ in[1] = ""
                            \/ Suffix(in[1]) \notin supported_extensions
                            \/ in[2] \in {"empty", "too_large"}
                 over == CountDocuments(u) >= MAX_DOCUMENTS IN
             UploadDocument(u, in[1], in[2], io)
             => /\ invalid => resp'.code = 400
                /\ (~invalid /\ over) => resp'.code = 403
                /\ (invalid \/ over \/ resp'.code \in {400, 403})
                   => UNCHANGED <<documents, vectorstores, processing_status,
                                  tasks, files>>]_vars

\* C12's case: an upload was turned down for the document limit while a run of
\* the same user is in flight.
C12_Witness ==
    /\ resp.op = "upload" /\ resp.code = 403
    /\ \E d \in DOMAIN tasks :
          /\ tasks[d].pc = "set_ready"
          /\ CountDocuments(tasks[d].user_id) >= MAX_DOCUMENTS

\* C13: an upload_document answered 200 returns a document_id that no earlier
\* upload drew (no task, record, file or flag bears it); the record of that id
\* then exists with the caller as owner and status "processing", the flag of
\* (caller, id) is true, and one task has been added, for that id, which has
\* not started: the tasks of the other documents are as they were.
C13_SuccessfulUpload ==
    [][(resp'.op = "upload" /\ resp'.code = 200) =>
          \A u \in Users, in \in UploadInputs, io \in UploadIo :
             UploadDocument(u, in[1], in[2], io)
             => LET d == resp'.document_id IN
                /\ d \notin DOMAIN tasks
                /\ d \notin DOMAIN documents
                /\ d \notin files
                /\ \A v \in Users : store_key(v, d) \notin DOMAIN processing_status
                /\ d \in DOMAIN documents'
                /\ documents'[d].user_id = u
                /\ documents'[d].status = "processing"
                /\ DictGet(processing_status', store_key(u, d), FALSE)
                /\ DOMAIN tasks' = DOMAIN tasks \cup {d}
                /\ tasks'[d].user_id = u
                /\ tasks'[d].pc = "build"
                /\ \A e \in DOMAIN tasks : tasks'[e] = tasks[e]]_vars

\* C13's case: a second upload was answered 200 while the run of the first
\* document is in flight.
C13_Witness ==
    /\ resp.op = "upload" /\ resp.code = 200
    /\ \E d, e \in DOMAIN tasks :
          /\ d # e
          /\ resp.document_id = e
          /\ tasks[e].pc = "build"
          /\ tasks[d].pc \notin {"build", "done"}

\* C14: no get_status response about a document that was never deleted reports
\* it ready (status "ready" or ready = true) together with an error message.
C14_ReadyWithoutError ==
    (/\ resp.op = "status" /\ resp.code = 200
     /\ resp.document_id \in DOMAIN tasks
     /\ tasks[resp.document_id].deleted = "no")
    => ~((resp.status = "ready" \/ resp.ready) /\ resp.error # None)

\* C15: in every interleaving of ask_question with the process_document run of
\* a document that is not deleted, an ask_question that gets an index from
\* vectorstores gets one whose run has ended, so that its finally block has
\* cleared the flag, and that holds all the chunks the run built; an
\* ask_question that tests the flag of a run that has not ended is answered
\* "still processing".
C15_IndexNeverPartiallyVisible ==
    [][/\ AskEnd =>
             LET key == store_key(resp.user_id, resp.document_id) IN
             (/\ key \in DOMAIN vectorstores
              /\ tasks[vectorstores[key].document_id].deleted = "no")
             => LET d == vectorstores[key].document_id IN
                /\ key = TaskKey(d)
                /\ Ended(d)
                /\ ~FlagSet(key)
                /\ vectorstores[key].chunks = tasks[d].built
                /\ tasks[d].built \in ChunkCounts
                /\ resp'.code = 200
       /\ \A in \in AskInputs, k \in Ks :
             (/\ Idle
              /\ \E d \in DocIds :
                    /\ InFlight(d)
                    /\ tasks[d].deleted = "no"
                    /\ TaskKey(d) = store_key(in[1], in[2])
              /\ AskBegin(in[1], in[2], k))
             => resp' = AskRejected(202, StillProcessing)]_vars

\* C15's case: ask_question is past the test of the flag, the index of its key
\* is registered and the run that registered it has ended.
C15_Witness ==
    /\ resp.op = "asking"
    /\ store_key(resp.user_id, resp.document_id) \in DOMAIN vectorstores
    /\ \E d \in DOMAIN tasks : Ended(d) /\ tasks[d].deleted = "no"

\* The status get_status reports for document d to its owner.
StatusReported(d) ==
    IF TaskKey(d) \in DOMAIN vectorstores /\ ~FlagSet(TaskKey(d)) THEN "ready"
    ELSE FieldGet(documents[d], "status", "processing")

\* Document d was deleted, or its record holds a terminal status and get_status
\* does not report "processing".
Settled(d) ==
    /\ d \in DOMAIN tasks
    /\ \/ tasks[d].deleted # "no"
       \/ /\ d \in DOMAIN documents
          /\ documents[d].status \in {"ready", "error"}
          /\ StatusReported(d) # "processing"

\* C16: with the worker thread scheduled fairly, every document uploaded
\* successfully is eventually deleted or settled: its record holds status
\* "ready" or "error" and get_status no longer reports "processing".
C16_EventuallyTerminal ==
    \A d \in DocIds : (d \in DOMAIN tasks) ~> Settled(d)

\* Document d of user u is ready: its run has ended, its record says "ready"
\* and its index is registered.
OwnReady(u, d) ==
    /\ Ended(d)
    /\ d \in DOMAIN documents
    /\ documents[d].user_id = u
    /\ documents[d].status = "ready"
    /\ store_key(u, d) \in DOMAIN vectorstores

Untouched(e) ==
    /\ (e \in DOMAIN documents') = (e \in DOMAIN documents)
    /\ e \in DOMAIN documents => documents'[e] = documents[e]
    /\ \A v \in Users :
          LET key == store_key(v, e) IN
          /\ (key \in DOMAIN vectorstores') = (key \in DOMAIN vectorstores)
          /\ key \in DOMAIN vectorstores => vectorstores'[key] = vectorstores[key]
          /\ (key \in DOMAIN processing_status') = (key \in DOMAIN processing_status)
          /\ key \in DOMAIN processing_status
             => processing_status'[key] = processing_status[key]

\* The step is one of upload_document, process_document or delete_document on
\* document d.
ActsOn(d) ==
    \/ ProcStep(d)
    \/ \E u \in Users, ok \in BOOLEAN : DeleteDocument(u, d, ok)
    \/ /\ Uuid(issued + 1) = d
       /\ \E u \in Users, io \in UploadIo : UploadDocument(u, "a.txt", "ok", io)

\* C18: a step of upload_document, process_document or delete_document on one
\* document leaves the record, the index and the flag of every other document
\* as they were; two documents, also of one user, have two keys, and the index
\* under the key of a document is the one built for that document.
C18_NoCrossDocumentEffect ==
    [][/\ LET touched == {e \in DocIdsTwo : ~Untouched(e)} IN
          touched # {} =>
             /\ \E d \in DocIdsTwo : ActsOn(d)
             /\ \A d \in DocIdsTwo : ActsOn(d) => touched \subseteq {d}
       /\ \A d, e \in DOMAIN tasks :
             /\ d # e => TaskKey(d) # TaskKey(e)
             /\ TaskKey(d) \in DOMAIN vectorstores
                => vectorstores[TaskKey(d)].document_id = d]_vars

\* C18's case: two documents of one user, the index of both registered, the run
\* of one ended and the run of the other in flight.
C18_Witness ==
    \E d, e \in DOMAIN tasks :
       /\ d # e
       /\ tasks[d].user_id = tasks[e].user_id
       /\ TaskKey(d) \in DOMAIN vectorstores
       /\ TaskKey(e) \in DOMAIN vectorstores
       /\ tasks[d].pc = "done"
       /\ tasks[e].pc = "set_ready"

\* The answer ask_question gives when nothing was retrieved.
NoRelevantInformation ==
    "I couldn't find any relevant information in the documents to answer this question."

\* C19: an ask_question that reaches the retrieval is answered 200; when the
\* retrieval returned no chunk the answer is the canned one, with
\* chunks_used = 0, no source document and no call of the language model, and
\* the canned answer is given in that case only.
C19_NothingRetrieved ==
    [][AskStep =>
          \A in \in AskInputs, k \in Ks :
             (/\ store_key(in[1], in[2]) \in DOMAIN vectorstores
              /\ ~FlagSet(store_key(in[1], in[2]))
              /\ AskQuestion(in[1], in[2], k))
             => /\ resp'.code = 200
                /\ resp'.chunks_used = 0
                   => /\ resp'.answer = NoRelevantInformation
                      /\ resp'.retrieved_from = {}
                      /\ ~resp'.llm_called
                /\ resp'.chunks_used # 0
                   => /\ resp'.answer # NoRelevantInformation
                      /\ resp'.llm_called]_vars

\* C19's case: the owner asked about the ready document and nothing was
\* retrieved.
C19_Witness ==
    /\ resp.op = "ask" /\ resp.code = 200 /\ resp.chunks_used = 0
    /\ \E d \in DOMAIN tasks : OwnReady(tasks[d].user_id, d)

\* C20: once a process_document run has ended, the transient file
\* upload_document wrote for its document is not in transient storage.
C20_FileRemovedWhenRunEnds ==
    \A d \in DOMAIN tasks : Ended(d) => d \notin files

\* The build of document d succeeded: texts were embedded.
Built(d) == d \in DOMAIN tasks /\ tasks[d].built > 0

\* C21: a document of one segment of 12,000 characters that became ready has
\* chunk_size 1000 and chunk_overlap 200 recorded, and a chunks_count within one
\* of total_length / (chunk_size - chunk_overlap).
C21_MediumBandFor12000Characters ==
    \A d \in DOMAIN documents :
        (/\ d \in DOMAIN tasks
         /\ tasks[d].loaded = <<12000>>
         /\ documents[d].status = "ready")
        => LET record == documents[d]
               step == record.chunk_size - record.chunk_overlap IN
           /\ record.chunk_size = 1000
           /\ record.chunk_overlap = 200
           /\ (record.chunks_count - 1) * step <= record.total_length
           /\ record.total_length <= (record.chunks_count + 1) * step

\* C22: _get_chunk_size gives (500, 100) below 5,000, (1000, 200) from 5,000 up
\* to but not including 50,000 and (1500, 300) from 50,000 on, for the total
\* length of every document built; these are the values process_document
\* records whenever it does not clamp them.
C22_BandsOfChunkSize ==
    \A d \in DOMAIN tasks :
        Built(d) =>
           LET t == tasks[d].total_length
               band == _get_chunk_size(t) IN
           /\ t < 5000 => band = <<500, 100>>
           /\ (5000 <= t /\ t < 50000) => band = <<1000, 200>>
           /\ t >= 50000 => band = <<1500, 300>>
           /\ (t < 100 \/ t - 50 >= band[1])
              => <<tasks[d].chunk_size, tasks[d].chunk_overlap>> = band

\* C22's case: a document of exactly 5,000 tokens became ready with the values
\* of the upper band.
C22_Witness ==
    \E d \in DOMAIN documents :
        /\ documents[d].status = "ready"
        /\ documents[d].total_length = 5000
        /\ documents[d].chunk_size = 1000
        /\ documents[d].chunk_overlap = 200

\* C23: the chunk_size of a document that was split (total_length >= 100) is
\* strictly less than its total_length.
C23_ChunkSizeBelowTotalLength ==
    \A d \in DOMAIN tasks :
        (Built(d) /\ tasks[d].total_length >= 100)
        => tasks[d].chunk_size < tasks[d].total_length

\* C24: the chunk_overlap of every document built is at most a quarter of its
\* chunk_size and strictly smaller than it, and so are the values of the band
\* of its total_length.
C24_OverlapAtMostQuarter ==
    \A d \in DOMAIN tasks :
        Built(d) =>
           LET band == _get_chunk_size(tasks[d].total_length) IN
           /\ 4 * tasks[d].chunk_overlap <= tasks[d].chunk_size
           /\ tasks[d].chunk_overlap < tasks[d].chunk_size
           /\ 4 * band[2] <= band[1]
           /\ band[2] < band[1]

\* C24's case: a document of 150 tokens was built with the chunk size clamped
\* to 100 and the overlap to 25.
C24_Witness ==
    \E d \in DOMAIN tasks :
        /\ Built(d)
        /\ tasks[d].total_length = 150
        /\ tasks[d].chunk_size = 100
        /\ tasks[d].chunk_overlap = 25

\* C25: a document whose embedding failed has no index registered, and once
\* its run has ended (the document not deleted) its record has status "error".
C25_EmbeddingFailureAborts ==
    \A d \in DOMAIN tasks :
        tasks[d].error = ErrorMessage("embed")
        => /\ tasks[d].built = 0
           /\ tasks[d].deleted = "no" => TaskKey(d) \notin DOMAIN vectorstores
           /\ (Ended(d) /\ tasks[d].deleted = "no")
              => documents[d].status = "error"

\* The loader returned no text for document d: no segment, or segments whose
\* text is empty.
NoText(d) ==
    \/ tasks[d].error = ErrorMessage("empty")
    \/ /\ tasks[d].loaded # <<>>
       /\ \A i \in DOMAIN tasks[d].loaded : tasks[d].loaded[i] = 0

\* C26: a document for which the loader returned no text is not built, has no
\* index registered and, once its run has ended, has status "error" and an
\* error message in its record.
C26_NoTextIsAnError ==
    \A d \in DOMAIN tasks :
        (tasks[d].pc # "build" /\ NoText(d))
        => /\ tasks[d].built = 0
           /\ TaskKey(d) \notin DOMAIN vectorstores
           /\ Ended(d) => /\ documents[d].status = "error"
                          /\ "error_message" \in DOMAIN documents[d]

\* C27: an ask_question answered from an index returns one source_documents
\* entry per chunk retrieved, in retrieval order, chunks_used being their
\* number; each entry shows at most the first 200 characters of its chunk and
\* never the whole chunk.
C27_PreviewIsATruncation ==
    [][AskStep =>
          \A in \in AskInputs, k \in Ks :
             (/\ store_key(in[1], in[2]) \in DOMAIN vectorstores
              /\ AskQuestion(in[1], in[2], k)
              /\ resp'.code = 200)
             => LET texts == vectorstores[store_key(in[1], in[2])].texts
                    sources == resp'.source_documents IN
                /\ Len(sources) = resp'.chunks_used
                /\ \A i \in DOMAIN sources :
                      /\ sources[i].chunk_index = i - 1
                      /\ sources[i].content.shown <= 200
                      /\ sources[i].content.shown < texts[i]]_vars

\* C28: a processing flag that is true belongs to a process_document run that
\* is scheduled or running (and will clear it); no flag is left true by an
\* upload_document that failed after setting it.
C28_TrueFlagHasARun ==
    \A key \in DOMAIN processing_status :
        processing_status[key]
        => \E d \in DOMAIN tasks : TaskKey(d) = key /\ InFlight(d)

\* C29: in every get_status response, ready is true exactly when status is
\* "ready", and processing is true only when status is "processing".
C29_StatusFieldsAgree ==
    (resp.op = "status" /\ resp.code = 200)
    => /\ resp.ready <=> resp.status = "ready"
       /\ resp.processing => resp.status = "processing"

\* C30: no user who is not an admin owns more than MAX_DOCUMENTS records of the
\* documents collection.
C30_AtMostMaxDocuments ==
    \A u \in Users \ Admins : CountDocuments(u) <= MAX_DOCUMENTS

====
